---- MODULE Spec2Model ----
(***************************************************************************)
(* Model of the checking functions of rpm_policy_checker/main.py:          *)
(*   _run_rpmlint, _check_spec_file, _check_rpm_file, check_package, and    *)
(* of the window's _start_check, _do_check and _show_results.              *)
(*                                                                         *)
(* Text is modelled by TLA+ strings, on which TLC evaluates Len, SubSeq    *)
(* and \o character by character, so the Python string methods (strip,    *)
(* startswith, in, split, lower) and the regular expressions of the source *)
(* are computed as the source computes them.  A file is the sequence of    *)
(* its lines (the result of splitlines()); White holds the white-space     *)
(* characters that can occur inside one line of the modelled inputs.       *)
(***************************************************************************)
EXTENDS Integers, Sequences, FiniteSets, TLC

VARIABLES
    pc,          \* "idle" before the call, then the name of the function that ran
    path,        \* the path argument of the call
    run_rpmlint, \* the run_rpmlint argument of check_package
    file,        \* the file at path: [status, lines]
    qpi,         \* what `rpm -qpi path` does when it is run
    qpl,         \* what `rpm -qpl path` does when it is run
    qpR,         \* what `rpm -qpR path` does when it is run
    lint,        \* what `rpmlint path` does when it is run
    results,     \* the list the function returned
    calls,       \* the analyzers entered and the subprocesses started, in order
    settings,    \* the window's settings: [show_pedantic, show_info]
    threads,     \* the worker threads in the order they were started: [path, done]
    idle,        \* the calls of _show_results queued on the main loop: their arguments
    _results,    \* the window's self._results
    subtitle,    \* the subtitle of the title widget
    _stack,      \* the visible child of self._stack
    _status,     \* what the label self._status says
    shown        \* the groups in the results box

window == <<settings, threads, idle, _results, subtitle, _stack, _status, shown>>

vars == <<pc, path, run_rpmlint, file, qpi, qpl, qpR, lint, results, calls, window>>

-----------------------------------------------------------------------------
(* Python string methods *)

White == {" ", "\t"}

Char(s, i) == SubSeq(s, i, i)

startswith(s, p) == Len(s) >= Len(p) /\ SubSeq(s, 1, Len(p)) = p

endswith(s, p) == Len(s) >= Len(p) /\ SubSeq(s, Len(s) - Len(p) + 1, Len(s)) = p

\* the Python expression `sub in s`
In(sub, s) == \E i \in 1..(Len(s) - Len(sub) + 1) : SubSeq(s, i, i + Len(sub) - 1) = sub

\* index of the first character of s, at or after i, that is not in cs (Len(s)+1 if none)
RECURSIVE SkipFwd(_, _, _)
SkipFwd(s, i, cs) == IF i <= Len(s) /\ Char(s, i) \in cs THEN SkipFwd(s, i + 1, cs) ELSE i

\* index of the last character of s, at or before i, that is not in cs (0 if none)
RECURSIVE SkipBack(_, _, _)
SkipBack(s, i, cs) == IF i >= 1 /\ Char(s, i) \in cs THEN SkipBack(s, i - 1, cs) ELSE i

\* s.strip(chars)
stripchars(s, cs) ==
    LET a == SkipFwd(s, 1, cs)
        b == SkipBack(s, Len(s), cs)
    IN  IF a > b THEN "" ELSE SubSeq(s, a, b)

\* s.strip()
strip(s) == stripchars(s, White)

\* index of the first occurrence of the character c in s at or after i (Len(s)+1 if none)
RECURSIVE find(_, _, _)
find(s, c, i) == IF i > Len(s) \/ Char(s, i) = c THEN i ELSE find(s, c, i + 1)

\* s.split(":", 1)[1], for s containing ":"
AfterColon(s) == SubSeq(s, find(s, ":", 1) + 1, Len(s))

UpperLetters == "ABCDEFGHIJKLMNOPQRSTUVWXYZ"
LowerLetters == "abcdefghijklmnopqrstuvwxyz"

UpperSet == {Char(UpperLetters, i) : i \in 1..26}
LowerSet == {Char(LowerLetters, i) : i \in 1..26}
ToLower == [c \in UpperSet |-> Char(LowerLetters, find(UpperLetters, c, 1))]
ToUpper == [c \in LowerSet |-> Char(UpperLetters, find(LowerLetters, c, 1))]

\* c.lower() and c.upper() of one character
LowerChar(c) == IF c \in UpperSet THEN ToLower[c] ELSE c
UpperChar(c) == IF c \in LowerSet THEN ToUpper[c] ELSE c

\* s.lower()
RECURSIVE lower(_)
lower(s) == IF s = "" THEN "" ELSE LowerChar(Char(s, 1)) \o lower(SubSeq(s, 2, Len(s)))

\* s.capitalize()
capitalize(s) ==
    IF s = "" THEN "" ELSE UpperChar(Char(s, 1)) \o lower(SubSeq(s, 2, Len(s)))

\* "%d" % n, for n >= 0
RECURSIVE IntToStr(_)
IntToStr(n) ==
    LET d == Char("0123456789", (n % 10) + 1)
    IN  IF n < 10 THEN d ELSE IntToStr(n \div 10) \o d

\* fmt % arg, for a format with one %s or %d directive; %% stands for "%"
RECURSIVE Fmt(_, _)
Fmt(fmt, arg) ==
    LET i == find(fmt, "%", 1)
        rest == SubSeq(fmt, i + 2, Len(fmt))
    IN  IF i > Len(fmt) THEN fmt
        ELSE IF Char(fmt, i + 1) = "%" THEN SubSeq(fmt, 1, i) \o Fmt(rest, arg)
        ELSE SubSeq(fmt, 1, i - 1) \o arg \o Fmt(rest, arg)

\* gettext with no catalogue installed returns the message id
gettext(msg) == msg

-----------------------------------------------------------------------------
(* The result records *)

\* the keys of CATEGORIES
CATEGORIES ==
    {"naming", "spec-quality", "dependencies", "file-placement", "licensing", "scriptlets",
     "macros", "changelog", "rpmlint", "general"}

\* the keys of the severity names: Error, Warning, Info, Note, Pedantic
SEVERITY_NAMES == {"E", "W", "I", "N", "P"}

Finding(category, severity, tag, detail, package, recommendation) ==
    [category |-> category, severity |-> severity, tag |-> tag,
     detail |-> detail, package |-> package, recommendation |-> recommendation]

\* what a called function hands back: its result list and what it started
Ret(rs, cs) == [results |-> rs, calls |-> cs]

\* a loop over lines that carries the state st: Step(st, i, line) is one pass
\* of the body for the line numbered i (from 1)
Loop(Step(_, _, _), init, lines) ==
    LET f[i \in 0..Len(lines)] == IF i = 0 THEN init ELSE Step(f[i - 1], i, lines[i])
    IN  f[Len(lines)]

RECURSIVE Flatten(_)
Flatten(ss) == IF ss = <<>> THEN <<>> ELSE Head(ss) \o Flatten(Tail(ss))

-----------------------------------------------------------------------------
(* subprocess.run: an outcome is [exc, returncode, stdout, stderr];         *)
(* exc is "" when run() returned, else the exception it raised.            *)

Completed(returncode, stdout, stderr) ==
    [exc |-> "", returncode |-> returncode, stdout |-> stdout, stderr |-> stderr]

Raised(exc) == [exc |-> exc, returncode |-> 0, stdout |-> <<>>, stderr |-> ""]

\* str(e) of the exception a subprocess.run(argv, timeout=t) raised; argv is
\* the text of the argument list, such as "'rpm', '-qpi', 'a.rpm'"
ExcText(exc, argv, t) ==
    IF exc = "TimeoutExpired"
    THEN "Command '[" \o argv \o "]' timed out after " \o IntToStr(t) \o " seconds"
    ELSE "[Errno 13] Permission denied: " \o SubSeq(argv, 1, find(argv, ",", 1) - 1)

-----------------------------------------------------------------------------
(* _check_rpm_file *)

rpm_query_failed(stderr) ==
    Finding("general", "E", "rpm-query-failed",
            IF strip(stderr) # "" THEN strip(stderr) ELSE gettext("Failed to query RPM package."),
            "", gettext("Ensure the file is a valid RPM package."))

rpm_not_installed ==
    Finding("general", "E", "rpm-not-installed", gettext("rpm command not found."),
            "", gettext("Install the rpm package to analyze RPM files."))

rpm_error(text) == Finding("general", "E", "rpm-error", text, "", "")

\* the timeout= argument of the three subprocess.run calls
RpmTimeout == 30

\* the two except clauses of _check_rpm_file
RpmExcept(out, opt, p) ==
    IF out.exc = "FileNotFoundError" THEN rpm_not_installed
    ELSE rpm_error(ExcText(out.exc, "'rpm', '" \o opt \o "', '" \o p \o "'", RpmTimeout))

missing_url_in_rpm ==
    Finding("spec-quality", "W", "missing-url-in-rpm", gettext("RPM package has no URL set."),
            "", gettext("Add a URL tag to the spec file."))

\* the body of `for line in info.splitlines()`
InfoLine(line) ==
    IF startswith(line, "URL")
    THEN LET url_val == IF In(":", line) THEN strip(AfterColon(line)) ELSE ""
         IN  IF url_val = "" \/ url_val = "(none)" THEN <<missing_url_in_rpm>> ELSE <<>>
    ELSE <<>>

file_in_usr_local(fp) ==
    Finding("file-placement", "E", "file-in-usr-local",
            Fmt(gettext("File installed in /usr/local/: %s"), fp),
            "", gettext("RPM packages must not install files under /usr/local/."))

file_in_tmp(fp) ==
    Finding("file-placement", "E", "file-in-tmp",
            Fmt(gettext("File installed in temporary directory: %s"), fp),
            "", gettext("Do not install files under /tmp/ or /var/tmp/."))

\* the body of `for fp in files`
FileLine(fp) ==
    (IF startswith(fp, "/usr/local/") THEN <<file_in_usr_local(fp)>> ELSE <<>>)
    \o (IF fp = "/usr/lib/.build-id" \/ In("/.build-id/", fp)
        THEN <<>>
        ELSE IF startswith(fp, "/tmp/") \/ startswith(fp, "/var/tmp/")
             THEN <<file_in_tmp(fp)>>
             ELSE <<>>)

file_dependency(dep) ==
    Finding("dependencies", "I", "file-dependency",
            Fmt(gettext("File-based dependency: %s"), dep),
            "", gettext("Consider using package-based dependencies instead of file paths where possible."))

\* DepLine without the list of exempt paths
DepLine_no_exemption(line) ==
    LET dep == strip(line)
    IN  IF startswith(dep, "/") /\ ~startswith(dep, "/usr/")
        THEN <<file_dependency(dep)>>
        ELSE <<>>

\* the body of `for dep in deps`
DepLine(line) ==
    LET dep == strip(line)
    IN  IF startswith(dep, "/") /\ ~startswith(dep, "/usr/")
           /\ dep \notin {"/bin/sh", "/bin/bash", "/sbin/ldconfig"}
        THEN <<file_dependency(dep)>>
        ELSE <<>>

\* a for loop that appends Body(line) for each line, in order
ForEach(Body(_), lines) == Flatten([i \in 1..Len(lines) |-> Body(lines[i])])

\* FileListCheck with a failed file-list query reported like a failed info query
FileListCheck_reporting(r2) ==
    IF r2.returncode = 0 THEN ForEach(FileLine, r2.stdout) ELSE <<rpm_query_failed(r2.stderr)>>

\* the file-list block: runs after `rpm -qpl` returned
FileListCheck(r2) == IF r2.returncode = 0 THEN ForEach(FileLine, r2.stdout) ELSE <<>>

\* the dependency block: runs after `rpm -qpR` returned
DependencyCheck(r3) == IF r3.returncode = 0 THEN ForEach(DepLine, r3.stdout) ELSE <<>>

\* what the first query's failure does
InfoQueryFailure(r, p) ==
    IF r.exc # "" THEN Ret(<<RpmExcept(r, "-qpi", p)>>, <<"rpm -qpi">>)
    ELSE Ret(<<rpm_query_failed(r.stderr)>>, <<"rpm -qpi">>)

\* the rest of the try block once info was read: r1 are the findings so far
AfterInfo(r1, p, r2, r3) ==
    IF r2.exc # ""
    THEN Ret(r1 \o <<RpmExcept(r2, "-qpl", p)>>, <<"rpm -qpi", "rpm -qpl">>)
    ELSE LET rs2 == r1 \o FileListCheck(r2)
         IN  IF r3.exc # ""
             THEN Ret(rs2 \o <<RpmExcept(r3, "-qpR", p)>>, <<"rpm -qpi", "rpm -qpl", "rpm -qpR">>)
             ELSE Ret(rs2 \o DependencyCheck(r3), <<"rpm -qpi", "rpm -qpl", "rpm -qpR">>)

\* _check_rpm_file without the `return results` of the returncode branch
_check_rpm_file_no_return(p, r, r2, r3) ==
    IF r.exc # "" THEN InfoQueryFailure(r, p)
    ELSE AfterInfo((IF r.returncode # 0 THEN <<rpm_query_failed(r.stderr)>> ELSE <<>>)
                       \o ForEach(InfoLine, r.stdout), p, r2, r3)

_check_rpm_file(p, r, r2, r3) ==
    IF r.exc # "" \/ r.returncode # 0
    THEN InfoQueryFailure(r, p)
    ELSE AfterInfo(ForEach(InfoLine, r.stdout), p, r2, r3)

-----------------------------------------------------------------------------
(* _run_rpmlint *)

\* the characters \w matches
WordChars ==
    {Char("abcdefghijklmnopqrstuvwxyzABCDEFGHIJKLMNOPQRSTUVWXYZ0123456789_", i) : i \in 1..63}

\* index of the first character of s, at or after i, that is in cs (Len(s)+1 if none)
RECURSIVE ScanTo(_, _, _)
ScanTo(s, i, cs) == IF i > Len(s) \/ Char(s, i) \in cs THEN i ELSE ScanTo(s, i + 1, cs)

\* whether `:\s*(\w):\s*(\S+)\s*(.*)` matches s from its index i on
PrimaryTail(s, i) ==
    LET w == SkipFwd(s, i + 1, White)
    IN  /\ i <= Len(s) /\ Char(s, i) = ":"
        /\ w <= Len(s) /\ Char(s, w) \in WordChars
        /\ w + 1 <= Len(s) /\ Char(s, w + 1) = ":"
        /\ SkipFwd(s, w + 2, White) <= Len(s)

\* re.match(r'^(.+?):\s*(\w):\s*(\S+)\s*(.*)', line): the index of the colon that
\* ends the lazy group 1, or 0 when the line does not match
RECURSIVE PrimaryColon(_, _)
PrimaryColon(line, i) ==
    IF i > Len(line) THEN 0
    ELSE IF PrimaryTail(line, i) THEN i
    ELSE PrimaryColon(line, i + 1)

\* the Finding of a line the primary pattern matches with group 1 ending before i
PrimaryFinding(line, i) ==
    LET w == SkipFwd(line, i + 1, White)
        t == SkipFwd(line, w + 2, White)
        e == ScanTo(line, t, White)
    IN  Finding("rpmlint", Char(line, w), SubSeq(line, t, e - 1),
                SubSeq(line, SkipFwd(line, e, White), Len(line)),
                strip(SubSeq(line, 1, i - 1)), "")

\* index of the last ":" of s at or before i and after its first character (0 if none)
RECURSIVE LastColon(_, _)
LastColon(s, i) == IF i < 2 THEN 0 ELSE IF Char(s, i) = ":" THEN i ELSE LastColon(s, i - 1)

\* re.match(r'^(\S+):\s*(.*)', line): the index of the colon that ends the greedy
\* group 1, or 0 when the line does not match
FallbackColon(line) == LastColon(line, ScanTo(line, 1, White) - 1)

\* the Finding of a line the fallback pattern matches with group 1 ending before c
FallbackFinding(line, c) ==
    Finding("rpmlint", "W", SubSeq(line, 1, c - 1),
            SubSeq(line, SkipFwd(line, c + 1, White), Len(line)), "", "")

\* line.startswith(('---', ' ', 'rpmlint:'))
NoisePrefix(line) ==
    startswith(line, "---") \/ startswith(line, " ") \/ startswith(line, "rpmlint:")

\* LintLine without the test of the noise prefixes
LintLine_no_noise_filter(line) ==
    LET m == PrimaryColon(line, 2)
        m2 == FallbackColon(line)
    IN  IF m # 0 THEN <<PrimaryFinding(line, m)>>
        ELSE IF strip(line) # "" /\ m2 # 0 THEN <<FallbackFinding(line, m2)>>
        ELSE <<>>

\* the body of `for line in (r.stdout + r.stderr).splitlines()`
LintLine(line) ==
    LET m == PrimaryColon(line, 2)
        m2 == FallbackColon(line)
    IN  IF m # 0 THEN <<PrimaryFinding(line, m)>>
        ELSE IF strip(line) # "" /\ ~NoisePrefix(line) /\ m2 # 0
             THEN <<FallbackFinding(line, m2)>>
             ELSE <<>>

rpmlint_not_installed ==
    Finding("rpmlint", "E", "rpmlint-not-installed", gettext("rpmlint is not installed."),
            "", gettext("Install with: sudo dnf install rpmlint"))

rpmlint_error(text) == Finding("rpmlint", "E", "rpmlint-error", text, "", "")

\* the timeout= argument of subprocess.run
LintTimeout == 120

\* _run_rpmlint with the `except Exception` clause alone
_run_rpmlint_one_clause(p, r) ==
    IF r.exc # ""
    THEN Ret(<<rpmlint_error(ExcText(r.exc, "'rpmlint', '" \o p \o "'", LintTimeout))>>,
             <<"rpmlint">>)
    ELSE Ret(ForEach(LintLine, r.stdout), <<"rpmlint">>)

\* _run_rpmlint(path), rpmlint behaving as r; r.stdout holds the lines of
\* r.stdout + r.stderr, and the exit status of rpmlint is not looked at
_run_rpmlint(p, r) ==
    IF r.exc = "FileNotFoundError" THEN Ret(<<rpmlint_not_installed>>, <<"rpmlint">>)
    ELSE IF r.exc # ""
    THEN Ret(<<rpmlint_error(ExcText(r.exc, "'rpmlint', '" \o p \o "'", LintTimeout))>>,
             <<"rpmlint">>)
    ELSE Ret(ForEach(LintLine, r.stdout), <<"rpmlint">>)

-----------------------------------------------------------------------------
(* _check_spec_file: the header scan *)

spec_read_error(text) == Finding("general", "E", "spec-read-error", text, "", "")

uppercase_package_name(name_val) ==
    Finding("naming", "W", "uppercase-package-name",
            Fmt(gettext("Package name '%s' contains uppercase letters."), name_val),
            name_val, gettext("Fedora guidelines recommend lowercase package names."))

space_in_package_name(name_val) ==
    Finding("naming", "E", "space-in-package-name", gettext("Package name contains spaces."),
            name_val, gettext("Remove spaces from the package name."))

missing_dist_tag ==
    Finding("spec-quality", "W", "missing-dist-tag",
            gettext("Release field does not contain %%{?dist}."), "",
            gettext("Add %%{?dist} to the Release tag for proper distribution tagging."))

summary_ends_with_dot ==
    Finding("spec-quality", "W", "summary-ends-with-dot",
            gettext("Summary should not end with a period."), "",
            gettext("Remove the trailing period from the Summary."))

summary_too_long ==
    Finding("spec-quality", "W", "summary-too-long", gettext("Summary exceeds 80 characters."),
            "", gettext("Keep the Summary concise (under 80 characters)."))

\* the longest summary that is not reported
MaxSummaryLen == 80

\* the flags and the license value before the first line
HeaderInit ==
    [has_name |-> FALSE, has_version |-> FALSE, has_release |-> FALSE,
     has_summary |-> FALSE, has_license |-> FALSE, has_url |-> FALSE,
     has_source |-> FALSE, has_description |-> FALSE, has_changelog |-> FALSE,
     has_buildroot |-> FALSE, has_clean |-> FALSE, license_value |-> "",
     results |-> <<>>]

\* the `name:` branch
NameLine(st, stripped) ==
    LET name_val == strip(AfterColon(stripped))
    IN  [st EXCEPT !.has_name = TRUE,
                   !.results = @ \o (IF name_val # lower(name_val)
                                     THEN <<uppercase_package_name(name_val)>> ELSE <<>>)
                                 \o (IF In(" ", name_val)
                                     THEN <<space_in_package_name(name_val)>> ELSE <<>>)]

\* ReleaseLine that validates only while no release line has been seen
ReleaseLine_first_only(st, stripped) ==
    LET release_val == strip(AfterColon(stripped))
    IN  [st EXCEPT !.has_release = TRUE,
                   !.results = @ \o (IF ~st.has_release /\ ~In("%{?dist}", release_val)
                                     THEN <<missing_dist_tag>> ELSE <<>>)]

\* the `release:` branch
ReleaseLine(st, stripped) ==
    LET release_val == strip(AfterColon(stripped))
    IN  [st EXCEPT !.has_release = TRUE,
                   !.results = @ \o (IF ~In("%{?dist}", release_val)
                                     THEN <<missing_dist_tag>> ELSE <<>>)]

\* SummaryLine that checks the length alone
SummaryLine_length_only(st, stripped) ==
    LET summary_val == strip(AfterColon(stripped))
    IN  [st EXCEPT !.has_summary = TRUE,
                   !.results = @ \o (IF Len(summary_val) > MaxSummaryLen
                                     THEN <<summary_too_long>> ELSE <<>>)]

\* the `summary:` branch
SummaryLine(st, stripped) ==
    LET summary_val == strip(AfterColon(stripped))
    IN  [st EXCEPT !.has_summary = TRUE,
                   !.results = @ \o (IF endswith(summary_val, ".")
                                     THEN <<summary_ends_with_dot>> ELSE <<>>)
                                 \o (IF Len(summary_val) > MaxSummaryLen
                                     THEN <<summary_too_long>> ELSE <<>>)]

\* the `license:` branch
LicenseLine(st, stripped) ==
    [st EXCEPT !.has_license = TRUE, !.license_value = strip(AfterColon(stripped))]

\* the body of the first `for line in lines`
HeaderStep(st, i, line) ==
    LET stripped == strip(line)
        low == lower(stripped)
    IN  IF startswith(low, "name:") THEN NameLine(st, stripped)
        ELSE IF startswith(low, "version:") THEN [st EXCEPT !.has_version = TRUE]
        ELSE IF startswith(low, "release:") THEN ReleaseLine(st, stripped)
        ELSE IF startswith(low, "summary:") THEN SummaryLine(st, stripped)
        ELSE IF startswith(low, "license:") THEN LicenseLine(st, stripped)
        ELSE IF startswith(low, "url:") THEN [st EXCEPT !.has_url = TRUE]
        ELSE IF startswith(low, "source") /\ In(":", low) THEN [st EXCEPT !.has_source = TRUE]
        ELSE IF startswith(low, "buildroot:") THEN [st EXCEPT !.has_buildroot = TRUE]
        ELSE IF stripped = "%description" THEN [st EXCEPT !.has_description = TRUE]
        ELSE IF stripped = "%changelog" THEN [st EXCEPT !.has_changelog = TRUE]
        ELSE IF stripped = "%clean" THEN [st EXCEPT !.has_clean = TRUE]
        ELSE st

HeaderScan(lines) == Loop(HeaderStep, HeaderInit, lines)

-----------------------------------------------------------------------------
(* _check_spec_file: required fields and deprecated features *)

missing_field(field) ==
    Finding("spec-quality", "E", "missing-" \o field,
            Fmt(gettext("Required field '%s' is missing from spec file."), capitalize(field)),
            "",
            Fmt(gettext("Add the %s tag to the spec file header."), capitalize(field)))

missing_url ==
    Finding("spec-quality", "W", "missing-url", gettext("URL field is missing."), "",
            gettext("Add a URL pointing to the project's homepage."))

missing_source ==
    Finding("spec-quality", "W", "missing-source", gettext("No Source tag found."), "",
            gettext("Add a Source0 tag with the upstream tarball URL."))

missing_description ==
    Finding("spec-quality", "E", "missing-description",
            gettext("%%description section is missing."), "",
            gettext("Add a %%description section with a detailed package description."))

missing_changelog ==
    Finding("changelog", "W", "missing-changelog", gettext("%%changelog section is missing."),
            "", gettext("Add a %%changelog section with dated entries."))

deprecated_buildroot ==
    Finding("spec-quality", "I", "deprecated-buildroot",
            gettext("BuildRoot tag is deprecated in modern RPM."), "",
            gettext("Remove the BuildRoot tag; RPM sets it automatically."))

deprecated_clean_section ==
    Finding("spec-quality", "I", "deprecated-clean-section",
            gettext("%%clean section is deprecated in modern RPM."), "",
            gettext("Remove the %%clean section; rpmbuild handles cleanup automatically."))

\* the list `required` without its last pair
required_without_license(st) ==
    <<<<"name", st.has_name>>, <<"version", st.has_version>>, <<"release", st.has_release>>,
      <<"summary", st.has_summary>>>>

\* the list `required`
required(st) ==
    <<<<"name", st.has_name>>, <<"version", st.has_version>>, <<"release", st.has_release>>,
      <<"summary", st.has_summary>>, <<"license", st.has_license>>>>

RequiredField(pair) == IF ~pair[2] THEN <<missing_field(pair[1])>> ELSE <<>>

\* the checks between the header scan and the license check
RequiredChecks(st) ==
    ForEach(RequiredField, required(st))
        \o (IF ~st.has_url THEN <<missing_url>> ELSE <<>>)
        \o (IF ~st.has_source THEN <<missing_source>> ELSE <<>>)
        \o (IF ~st.has_description THEN <<missing_description>> ELSE <<>>)
        \o (IF ~st.has_changelog THEN <<missing_changelog>> ELSE <<>>)
        \o (IF st.has_buildroot THEN <<deprecated_buildroot>> ELSE <<>>)
        \o (IF st.has_clean THEN <<deprecated_clean_section>> ELSE <<>>)

-----------------------------------------------------------------------------
(* _check_spec_file: the license check *)

spdx_identifiers ==
    {"MIT", "Apache-2.0", "GPL-2.0-only", "GPL-2.0-or-later",
     "GPL-3.0-only", "GPL-3.0-or-later", "LGPL-2.1-only",
     "LGPL-2.1-or-later", "LGPL-3.0-only", "LGPL-3.0-or-later",
     "BSD-2-Clause", "BSD-3-Clause", "MPL-2.0", "ISC", "Zlib",
     "Unlicense", "CC0-1.0", "AGPL-3.0-only", "AGPL-3.0-or-later",
     "Artistic-2.0", "BSL-1.0", "CC-BY-4.0", "CC-BY-SA-4.0",
     "EPL-2.0", "EUPL-1.2", "WTFPL", "0BSD"}

old_fedora_licenses ==
    {"GPLv2", "GPLv2+", "GPLv3", "GPLv3+", "LGPLv2", "LGPLv2+",
     "LGPLv3", "LGPLv3+", "ASL 2.0", "BSD", "MIT"}

\* the alternatives of the separator pattern
SplitKeywords == {"AND", "OR", "and", "or"}

\* the index after a match of `\s+(?:AND|OR|and|or)\s+` that starts at index p of
\* s, or 0 when there is no match at p
SeparatorEnd(s, p) ==
    LET q == SkipFwd(s, p, White)
        kws == {kw \in SplitKeywords :
                    /\ q + Len(kw) <= Len(s)
                    /\ SubSeq(s, q, q + Len(kw) - 1) = kw
                    /\ Char(s, q + Len(kw)) \in White}
    IN  IF p <= Len(s) /\ Char(s, p) \in White /\ kws # {}
        THEN SkipFwd(s, q + Len(CHOOSE kw \in kws : TRUE), White)
        ELSE 0

\* the start of the leftmost match of the separator pattern in s at or after p
\* (Len(s)+1 if none)
RECURSIVE SeparatorStart(_, _)
SeparatorStart(s, p) ==
    IF p > Len(s) \/ SeparatorEnd(s, p) # 0 THEN p ELSE SeparatorStart(s, p + 1)

\* re.split(r'\s+(?:AND|OR|and|or)\s+', s)
RECURSIVE re_split(_)
re_split(s) ==
    LET p == SeparatorStart(s, 1)
    IN  IF p > Len(s) THEN <<s>>
        ELSE <<SubSeq(s, 1, p - 1)>> \o re_split(SubSeq(s, SeparatorEnd(s, p), Len(s)))

old_license_identifier(part) ==
    Finding("licensing", "W", "old-license-identifier",
            Fmt(gettext("License '%s' uses old Fedora format, not SPDX."), part), "",
            gettext("Fedora 40+ requires SPDX license identifiers. Convert to SPDX format."))

unknown_license_identifier(part) ==
    Finding("licensing", "I", "unknown-license-identifier",
            Fmt(gettext("License identifier '%s' is not a recognized SPDX identifier."), part),
            "", gettext("Check https://spdx.org/licenses/ for valid SPDX identifiers."))

\* LicensePart that removes one parenthesis at most from each end
LicensePart_one_layer(part) ==
    LET t == strip(part)
        a == IF startswith(t, "(") THEN 2 ELSE 1
        b == IF endswith(t, ")") THEN Len(t) - 1 ELSE Len(t)
    IN  SubSeq(t, a, b)

\* part.strip().strip("()")
LicensePart(part) == stripchars(strip(part), {"(", ")"})

\* LicensePartCheck that reports every legacy identifier, those of the SPDX set too
LicensePartCheck_legacy_first(raw) ==
    LET part == LicensePart(raw)
    IN  IF part \in old_fedora_licenses THEN <<old_license_identifier(part)>>
        ELSE IF part \notin spdx_identifiers THEN <<unknown_license_identifier(part)>>
        ELSE <<>>

\* the body of `for part in license_parts`
LicensePartCheck(raw) ==
    LET part == LicensePart(raw)
    IN  IF part \in old_fedora_licenses /\ part \notin spdx_identifiers
        THEN <<old_license_identifier(part)>>
        ELSE IF part \notin spdx_identifiers /\ part \notin old_fedora_licenses
        THEN <<unknown_license_identifier(part)>>
        ELSE <<>>

\* LicenseCheck entered whether or not a license value was captured
LicenseCheck_unguarded(license_value) == ForEach(LicensePartCheck, re_split(license_value))

\* the block `if license_value:`
LicenseCheck(license_value) ==
    IF license_value # "" THEN ForEach(LicensePartCheck, re_split(license_value)) ELSE <<>>

-----------------------------------------------------------------------------
(* _check_spec_file: the macro scan *)

LineFinding(category, severity, tag, fmt, i, recommendation) ==
    Finding(category, severity, tag, Fmt(gettext(fmt), IntToStr(i)), "", gettext(recommendation))

hardcoded_library_path(i) ==
    LineFinding("macros", "W", "hardcoded-library-path",
                "Line %d: Hardcoded /usr/lib/ instead of %%{_libdir}.", i,
                "Use %%{_libdir} macro instead of hardcoded library path.")

hardcoded_bindir(i) ==
    LineFinding("macros", "W", "hardcoded-bindir",
                "Line %d: Hardcoded /usr/bin/ instead of %%{_bindir}.", i,
                "Use %%{_bindir} macro instead of hardcoded path.")

hardcoded_datadir(i) ==
    LineFinding("macros", "I", "hardcoded-datadir",
                "Line %d: Hardcoded /usr/share/ instead of %%{_datadir}.", i,
                "Use %%{_datadir} macro for portability.")

hardcoded_sysconfdir(i) ==
    LineFinding("macros", "I", "hardcoded-sysconfdir",
                "Line %d: Hardcoded /etc/ instead of %%{_sysconfdir}.", i,
                "Use %%{_sysconfdir} macro for portability.")

\* MacroStep with the four tests chained, the first that holds deciding
MacroStep_first_only(rs, i, line) ==
    LET stripped == strip(line)
        comment == startswith(stripped, "#")
        source == startswith(stripped, "Source")
    IN  rs \o (IF In("/usr/lib/", stripped) /\ ~In("%{_libdir}", stripped) /\ ~comment
               THEN <<hardcoded_library_path(i)>>
               ELSE IF In("/usr/bin/", stripped) /\ ~In("%{_bindir}", stripped) /\ ~comment /\ ~source
               THEN <<hardcoded_bindir(i)>>
               ELSE IF In("/usr/share/", stripped) /\ ~In("%{_datadir}", stripped) /\ ~comment /\ ~source
               THEN <<hardcoded_datadir(i)>>
               ELSE IF In("/etc/", stripped) /\ ~In("%{_sysconfdir}", stripped) /\ ~comment
               THEN <<hardcoded_sysconfdir(i)>>
               ELSE <<>>)

\* the body of the loop `for i, line in enumerate(lines, 1)` of the macro scan
MacroStep(rs, i, line) ==
    LET stripped == strip(line)
        comment == startswith(stripped, "#")
        source == startswith(stripped, "Source")
    IN  rs \o (IF In("/usr/lib/", stripped) /\ ~In("%{_libdir}", stripped) /\ ~comment
               THEN <<hardcoded_library_path(i)>> ELSE <<>>)
           \o (IF In("/usr/bin/", stripped) /\ ~In("%{_bindir}", stripped) /\ ~comment /\ ~source
               THEN <<hardcoded_bindir(i)>> ELSE <<>>)
           \o (IF In("/usr/share/", stripped) /\ ~In("%{_datadir}", stripped) /\ ~comment /\ ~source
               THEN <<hardcoded_datadir(i)>> ELSE <<>>)
           \o (IF In("/etc/", stripped) /\ ~In("%{_sysconfdir}", stripped) /\ ~comment
               THEN <<hardcoded_sysconfdir(i)>> ELSE <<>>)

MacroScan(lines) == Loop(MacroStep, <<>>, lines)

-----------------------------------------------------------------------------
(* _check_spec_file: the scriptlet scan *)

dangerous_rm_in_scriptlet(i) ==
    LineFinding("scriptlets", "E", "dangerous-rm-in-scriptlet",
                "Line %d: Dangerous rm -rf in scriptlet.", i,
                "Avoid destructive rm commands in scriptlets.")

exit_in_scriptlet(i) ==
    LineFinding("scriptlets", "W", "exit-in-scriptlet",
                "Line %d: 'exit' in scriptlet may cause transaction failure.", i,
                "Use 'exit 0' or remove exit calls; scriptlet failures can block RPM transactions.")

ScriptletMarkers == {"%pre", "%post", "%preun", "%postun", "%pretrans", "%posttrans"}

\* the content checks of a line at which in_scriptlet holds
ScriptletContent(stripped, i) ==
    (IF In("rm -rf /", stripped) \/ In("rm -rf $RPM_BUILD_ROOT", stripped)
     THEN <<dangerous_rm_in_scriptlet(i)>> ELSE <<>>)
    \o (IF startswith(stripped, "exit") THEN <<exit_in_scriptlet(i)>> ELSE <<>>)

\* ScriptletStep in which no line ends a scriptlet
ScriptletStep_never_leaves(st, i, line) ==
    LET stripped == strip(line)
    IN  IF stripped \in ScriptletMarkers THEN [st EXCEPT !.in_scriptlet = TRUE]
        ELSE [st EXCEPT !.results = @ \o (IF st.in_scriptlet
                                          THEN ScriptletContent(stripped, i) ELSE <<>>)]

\* the body of the loop of the scriptlet scan
ScriptletStep(st, i, line) ==
    LET stripped == strip(line)
        in_scriptlet == IF startswith(stripped, "%") /\ ~startswith(stripped, "%{")
                        THEN FALSE ELSE st.in_scriptlet
    IN  IF stripped \in ScriptletMarkers THEN [st EXCEPT !.in_scriptlet = TRUE]
        ELSE [in_scriptlet |-> in_scriptlet,
              results |-> st.results \o (IF in_scriptlet
                                         THEN ScriptletContent(stripped, i) ELSE <<>>)]

ScriptletScan(lines) == Loop(ScriptletStep, [in_scriptlet |-> FALSE, results |-> <<>>], lines)

-----------------------------------------------------------------------------
(* _check_spec_file: the changelog scan *)

malformed_changelog_entry(i) ==
    LineFinding("changelog", "W", "malformed-changelog-entry",
                "Line %d: Changelog entry does not follow standard format.", i,
                "Use format: * Day Mon DD YYYY Name <email> - version-release")

\* the characters \d matches
DigitChars == {Char("0123456789", i) : i \in 1..10}

\* the number of digits `\d{4}` takes
YearDigits == 4

\* whether `.+\s+<.+@.+>` matches s from its index r on
EntryTail(s, r) ==
    \E b \in (r + 2)..Len(s) :
        /\ Char(s, b) = "<"
        /\ Char(s, b - 1) \in White
        /\ \E c \in (b + 2)..Len(s) :
               /\ Char(s, c) = "@"
               /\ \E d \in (c + 2)..Len(s) : Char(s, d) = ">"

\* re.match(r'^\*\s+\w+\s+\w+\s+\d+\s+\d{4}\s+.+\s+<.+@.+>', line)
EntryMatch(line) ==
    LET a1 == SkipFwd(line, 2, White)
        b1 == SkipFwd(line, a1, WordChars)
        a2 == SkipFwd(line, b1, White)
        b2 == SkipFwd(line, a2, WordChars)
        a3 == SkipFwd(line, b2, White)
        b3 == SkipFwd(line, a3, DigitChars)
        a4 == SkipFwd(line, b3, White)
        y == a4 + YearDigits
    IN  /\ startswith(line, "*")
        /\ a1 > 2 /\ b1 > a1 /\ a2 > b1 /\ b2 > a2 /\ a3 > b2 /\ b3 > a3 /\ a4 > b3
        /\ y <= Len(line)
        /\ \A k \in a4..(y - 1) : Char(line, k) \in DigitChars
        /\ Char(line, y) \in White
        /\ EntryTail(line, y + 1)

\* ChangelogStep that leaves the changelog at the next section line
ChangelogStep_leaves_at_section(st, i, line) ==
    IF strip(line) = "%changelog" THEN [st EXCEPT !.in_changelog = TRUE]
    ELSE IF startswith(strip(line), "%") THEN [st EXCEPT !.in_changelog = FALSE]
    ELSE IF st.in_changelog /\ startswith(line, "*") /\ ~EntryMatch(line)
    THEN [st EXCEPT !.results = @ \o <<malformed_changelog_entry(i)>>]
    ELSE st

\* the body of the loop of the changelog scan
ChangelogStep(st, i, line) ==
    IF strip(line) = "%changelog" THEN [st EXCEPT !.in_changelog = TRUE]
    ELSE IF st.in_changelog /\ startswith(line, "*") /\ ~EntryMatch(line)
    THEN [st EXCEPT !.results = @ \o <<malformed_changelog_entry(i)>>]
    ELSE st

ChangelogScan(lines) == Loop(ChangelogStep, [in_changelog |-> FALSE, results |-> <<>>], lines)

-----------------------------------------------------------------------------
(* _check_spec_file *)

\* a file: status is "ok", "missing" (open() raises), "undecodable_head" (the
\* first read raises) or "undecodable_tail" (the first line can be read, the
\* whole file cannot); lines are the lines of its decodable text
File(status, lines) == [status |-> status, lines |-> lines]

\* str(e) of the exception reading the file at p raises
ReadErrorText(f, p) ==
    IF f.status = "missing" THEN "[Errno 2] No such file or directory: '" \o p \o "'"
    ELSE "'utf-8' codec can't decode byte 0xff in position 0: invalid start byte"

\* SpecPasses with the scriptlet scan before the macro scan
SpecPasses_scriptlets_first(lines) ==
    LET st == HeaderScan(lines)
    IN  st.results \o RequiredChecks(st) \o LicenseCheck(st.license_value)
            \o ScriptletScan(lines).results \o MacroScan(lines)
            \o ChangelogScan(lines).results

\* the passes over a text that was read
SpecPasses(lines) ==
    LET st == HeaderScan(lines)
    IN  st.results \o RequiredChecks(st) \o LicenseCheck(st.license_value)
            \o MacroScan(lines) \o ScriptletScan(lines).results
            \o ChangelogScan(lines).results

_check_spec_file(p, f) ==
    IF f.status # "ok" THEN Ret(<<spec_read_error(ReadErrorText(f, p))>>, <<>>)
    ELSE Ret(SpecPasses(f.lines), <<>>)

-----------------------------------------------------------------------------
(* check_package *)

unknown_file_type ==
    Finding("general", "E", "unknown-file-type", gettext("File is not a .rpm or .spec file."),
            "", gettext("Open a .rpm package or .spec file."))

\* an analyzer's return, entered under the name `name`
Entered(name, ret) == Ret(ret.results, <<name>> \o ret.calls)

\* results.extend(first) and then, if run, results.extend(_run_rpmlint(path))
ThenLint(first, run, p, l) ==
    IF run
    THEN LET second == Entered("_run_rpmlint", _run_rpmlint(p, l))
         IN  Ret(first.results \o second.results, first.calls \o second.calls)
    ELSE first

\* whether open(path) or f.readline() raises
PeekRaises(f) == f.status \in {"missing", "undecodable_head"}

\* f.readline() on the file just opened
readline(f) == IF f.lines = <<>> THEN "" ELSE f.lines[1] \o "\n"

\* the else branch: the path ends in neither .spec nor .rpm
OtherFile(p, f) ==
    IF PeekRaises(f) THEN Ret(<<unknown_file_type>>, <<>>)
    ELSE LET first_line == readline(f)
         IN  IF In("Name:", first_line) \/ In("%", first_line)
             THEN Entered("_check_spec_file", _check_spec_file(p, f))
             ELSE Ret(<<unknown_file_type>>, <<>>)

\* check_package that runs rpmlint on a binary package whatever run_rpmlint is
check_package_always_lints_rpm(p, run, f, r, r2, r3, l) ==
    IF endswith(p, ".spec")
    THEN ThenLint(Entered("_check_spec_file", _check_spec_file(p, f)), run, p, l)
    ELSE IF endswith(p, ".rpm")
    THEN ThenLint(Entered("_check_rpm_file", _check_rpm_file(p, r, r2, r3)), TRUE, p, l)
    ELSE OtherFile(p, f)

\* check_package that runs rpmlint on a file of another name too
check_package_lints_other(p, run, f, r, r2, r3, l) ==
    IF endswith(p, ".spec")
    THEN ThenLint(Entered("_check_spec_file", _check_spec_file(p, f)), run, p, l)
    ELSE IF endswith(p, ".rpm")
    THEN ThenLint(Entered("_check_rpm_file", _check_rpm_file(p, r, r2, r3)), run, p, l)
    ELSE ThenLint(OtherFile(p, f), run, p, l)

\* check_package(path, run_rpmlint), the file at path being f, rpm behaving as
\* r, r2, r3 and rpmlint as l
check_package(p, run, f, r, r2, r3, l) ==
    IF endswith(p, ".spec")
    THEN ThenLint(Entered("_check_spec_file", _check_spec_file(p, f)), run, p, l)
    ELSE IF endswith(p, ".rpm")
    THEN ThenLint(Entered("_check_rpm_file", _check_rpm_file(p, r, r2, r3)), run, p, l)
    ELSE OtherFile(p, f)

-----------------------------------------------------------------------------
(* Bounded inputs *)

MaxFiles == 2
MaxDeps == 2

RECURSIVE SeqsUpTo(_, _)
SeqsUpTo(S, n) ==
    IF n = 0 THEN {<<>>}
    ELSE LET shorter == SeqsUpTo(S, n - 1)
         IN  shorter \cup {Append(s, x) : s \in {t \in shorter : Len(t) = n - 1}, x \in S}

NoFile == File("missing", <<>>)
NoRun == Raised("FileNotFoundError")

FailedRuns(stderrs) ==
    {Raised("FileNotFoundError"), Raised("TimeoutExpired"), Raised("PermissionError")}
    \cup {Completed(1, <<>>, e) : e \in stderrs}

InfoTexts ==
    {<<"Name        : foo", "URL         : https://example.org">>,
     <<"Name        : foo", "URL         : (none)">>,
     <<"URL">>}

FilePaths ==
    {"/usr/bin/foo", "/usr/local/bin/foo", "/usr/lib/.build-id/ab/cdef",
     "/usr/local/lib/.build-id/ab/cdef", "/tmp/x", "/var/tmp/.build-id/y"}

DepStrings == {"/bin/sh", "/etc/foo", "/usr/bin/python3", "libc.so.6", " /opt/x "}

InfoRuns == {Completed(0, t, "") : t \in InfoTexts} \cup FailedRuns({"", "error: open failed "})
FileListRuns == {Completed(0, fs, "") : fs \in SeqsUpTo(FilePaths, MaxFiles)} \cup FailedRuns({""})
DependencyRuns == {Completed(0, ds, "") : ds \in SeqsUpTo(DepStrings, MaxDeps)} \cup FailedRuns({""})

MaxLintLines == 2

LintLines ==
    {"foo.x86_64: W: no-documentation",
     "foo.spec:12: E: hardcoded-library-path in %{buildroot}/usr/lib",
     "a:b: W: tag",
     " foo.noarch: I: checking",
     "foo.src: 9: strange-severity  two  words",
     "foo: bar baz",
     "x: W:",
     "spec:7:  detail",
     "--- foo: bar",
     "--- a: W: tag",
     " indented: text",
     "rpmlint: 2.4.0",
     "\tfoo: bar",
     "1 packages and 0 specfiles checked; 0 errors, 1 warnings.",
     "",
     "  "}

LintRuns ==
    {Completed(rc, ls, "") : rc \in {0, 64}, ls \in SeqsUpTo(LintLines, MaxLintLines)}
    \cup {Raised("FileNotFoundError"), Raised("TimeoutExpired"), Raised("PermissionError")}

MaxSpecLines == 3

\* lines of spec files, grouped by the pass they exercise
HeaderLines ==
    {"Name: Foo", "Version: 1", "Release: 1", "Release: 2%{?dist}", "  release:3",
     "Name: Release: 1", "# Release: 1", "Summary: test."}

\* lines the presence flags depend on
RequiredLines ==
    {"Name: foo", "VERSION:1", "  release: 1%{?dist}", "Summary: A test", "license : MIT",
     "URL: https://example.org", "Source0: foo.tar.gz", "source", "  %description ",
     "%description -n foo", "%changelog", "Changelog:"}

LicenseLines ==
    {"License: MIT", "License: GPLv2", "License: MIT AND Apache-2.0",
     "License: (MIT or BSD) AND Foo", "License: GPLv2+ OR Foo  and\tASL 2.0", "License: MIT And BSD",
     "License: ((GPLv3))", "License: ((GPLv3)) or (MIT And BSD)",
     "License:", "license: ORACLE AND  AND MIT", "Name: foo"}

MacroLines ==
    {"/usr/lib/a /usr/bin/b /usr/share/c /etc/d", "# /usr/lib/a /etc/d",
     "Source0: /usr/bin/b /usr/share/c /etc/d", "%{_libdir}/a /usr/lib/b",
     " %{_bindir}/x /usr/bin/y %{_sysconfdir} /etc/z", "%install", "/usr/lib64/a /usr/share/b"}

ScriptletLines ==
    {"%post", "  %preun ", "%post -p /sbin/ldconfig", "%files", "%{?ldconfig}",
     "rm -rf /tmp/x", "  rm -rf $RPM_BUILD_ROOT", "exit 0", "%changelog"}

ChangelogLines ==
    {"%changelog", " %changelog", "* Mon Jan 01 2024 John Doe <john@example.com> - 1.0-1",
     "* Mon Jan 1 24 John Doe <john@example.com>", "* Mon Jan 01 2024 John <john>",
     " * bad entry", "- fix", "%files", "*Mon Jan 01 2024 J <a@b>"}

SpecLineFamilies == {HeaderLines, RequiredLines, LicenseLines, MacroLines, ScriptletLines, ChangelogLines}

\* longer texts: a text with scriptlets between other sections, the end-to-end
\* scenario of the design document, a text every pass reports on, and a header
\* with every field
ScenarioTexts ==
    {<<"%post", "rm -rf /tmp/x", "exit 0", "%files", "  rm -rf $RPM_BUILD_ROOT", "%preun",
       "%{?ldconfig}", "rm -rf /">>,
     <<"Name: Foo", "Version: 1", "Release: 1", "Summary: test.", "License: GPLv2",
       "%description", "test">>,
     <<"Name: Foo", "Release: 1", "License: GPLv2", "/usr/lib/x", "%post", "rm -rf /", "/etc/y",
       "%changelog", "* bad", "Summary: x.", "* worse">>,
     <<"Name: foo", "Version: 1", "Release: 1%{?dist}", "Summary: A test", "License: MIT",
       "URL: https://example.org", "Source0: foo.tar.gz", "BuildRoot: /tmp/foo",
       "%description", "test", "%clean", "%changelog">>}

SpecTexts == UNION {SeqsUpTo(F, MaxSpecLines) : F \in SpecLineFamilies} \cup ScenarioTexts

SpecFiles ==
    {File("ok", t) : t \in SpecTexts}
    \cup {File("missing", <<>>), File("undecodable_head", <<>>), File("undecodable_tail", <<"Name: foo">>)}

\* the inputs of check_package
PackagePaths == {"a.spec", "a.rpm", "a.xyz", "README", "a.spec.orig", ".rpm", "a.rpm.spec"}

PackageFiles ==
    {File("ok", t) : t \in {<<>>, <<"">>, <<"Name: foo">>, <<"%global x 1">>, <<"hello">>,
                            <<"name: foo", "Name: Foo">>, <<"# 100%", "/usr/lib/x">>}
                           \cup ScenarioTexts}
    \cup {File("missing", <<>>), File("undecodable_head", <<>>),
          File("undecodable_tail", <<"Name: foo">>), File("undecodable_tail", <<"hello">>)}

PackageInfoRuns ==
    {Completed(0, <<"URL         : (none)">>, ""), Completed(1, <<>>, "error: not an rpm package"),
     Raised("TimeoutExpired")}
PackageFileListRuns == {Completed(0, <<"/usr/local/bin/foo">>, ""), Completed(1, <<>>, "")}
PackageDependencyRuns == {Completed(0, <<"/etc/foo">>, ""), Raised("FileNotFoundError")}
PackageLintRuns ==
    {Completed(0, <<"foo.x86_64: W: no-documentation", "foo: bar baz">>, ""),
     Completed(0, <<"foo.src: 9: strange-severity  two  words">>, ""),
     Completed(0, <<>>, ""), Raised("FileNotFoundError")}

-----------------------------------------------------------------------------
(* States and actions.  The initial states hold the arguments of one call and  *)
(* what the file system and the external tools will do; the action is the call. *)

\* a text of the status label: the message and the values formatted into it
StatusText(msg, args) == [text |-> msg, args |-> args]

\* the window after __init__, no file opened yet
NewWindow ==
    /\ threads = <<>> /\ idle = <<>>
    /\ _results = <<>>
    /\ subtitle = "" /\ _stack = "empty" /\ _status = StatusText("Ready", <<>>)
    /\ shown = <<>>

DefaultSettings == [show_pedantic |-> TRUE, show_info |-> TRUE]

Idle == pc = "idle" /\ results = <<>> /\ calls = <<>> /\ settings = DefaultSettings /\ NewWindow

\* the call has returned rs, having started cs
Return(name, ret) ==
    /\ pc' = name
    /\ results' = ret.results
    /\ calls' = ret.calls
    /\ UNCHANGED <<path, run_rpmlint, file, qpi, qpl, qpR, lint>>
    /\ UNCHANGED window

InitSpecFile ==
    /\ Idle
    /\ path = "a.spec"
    /\ run_rpmlint = FALSE
    /\ file \in SpecFiles
    /\ qpi = NoRun /\ qpl = NoRun /\ qpR = NoRun /\ lint = NoRun

\* a call _check_spec_file(path)
CheckSpecFile ==
    /\ pc = "idle"
    /\ Return("_check_spec_file", _check_spec_file(path, file))

\* a second call _check_spec_file(path), on the same file
CheckSpecFileAgain ==
    /\ pc = "_check_spec_file"
    /\ Return("_check_spec_file again", _check_spec_file(path, file))

NextSpecFile == CheckSpecFile \/ CheckSpecFileAgain

SpecSpecFile == InitSpecFile /\ [][NextSpecFile]_vars

InitLint ==
    /\ Idle
    /\ path \in {"a.rpm", "a.spec"}
    /\ run_rpmlint = FALSE
    /\ file = NoFile
    /\ qpi = NoRun /\ qpl = NoRun /\ qpR = NoRun
    /\ lint \in LintRuns

\* a call _run_rpmlint(path)
RunRpmlint ==
    /\ pc = "idle"
    /\ Return("_run_rpmlint", _run_rpmlint(path, lint))

NextLint == RunRpmlint

SpecLint == InitLint /\ [][NextLint]_vars

InitRpm ==
    /\ Idle
    /\ path = "a.rpm"
    /\ run_rpmlint = FALSE
    /\ file = NoFile
    /\ qpi \in InfoRuns
    /\ qpl \in FileListRuns
    /\ qpR \in DependencyRuns
    /\ lint = NoRun

\* a call _check_rpm_file(path)
CheckRpmFile ==
    /\ pc = "idle"
    /\ Return("_check_rpm_file", _check_rpm_file(path, qpi, qpl, qpR))

NextRpm == CheckRpmFile

SpecRpm == InitRpm /\ [][NextRpm]_vars

InitPackage ==
    /\ Idle
    /\ path \in PackagePaths
    /\ run_rpmlint \in BOOLEAN
    /\ file \in PackageFiles
    /\ qpi \in PackageInfoRuns
    /\ qpl \in PackageFileListRuns
    /\ qpR \in PackageDependencyRuns
    /\ lint \in PackageLintRuns

\* a call check_package(path, run_rpmlint)
CheckPackage ==
    /\ pc = "idle"
    /\ Return("check_package", check_package(path, run_rpmlint, file, qpi, qpl, qpR, lint))

NextPackage == CheckPackage

SpecPackage == InitPackage /\ [][NextPackage]_vars

-----------------------------------------------------------------------------
(* The window: _start_check runs on the main thread and starts a worker     *)
(* thread; the worker runs _do_check, which hands its results to the main   *)
(* loop with GLib.idle_add; the main loop runs the queued _show_results     *)
(* calls one at a time, in the order they were queued.                      *)

MaxChecks == 3

GuiPaths == {"/a/foo.spec", "/b/foo.rpm", "/b/notes.txt"}

GuiFiles == {File("ok", <<"Name: foo">>), File("ok", <<"hello">>), File("missing", <<>>)}

GuiLintRuns ==
    {Completed(0, <<"foo.x86_64: P: no-documentation", "foo.x86_64: I: checking">>, ""),
     Completed(0, <<>>, "")}

\* index of the last "/" of s at or before i (0 if none)
RECURSIVE LastSlash(_, _)
LastSlash(s, i) == IF i < 1 THEN 0 ELSE IF Char(s, i) = "/" THEN i ELSE LastSlash(s, i - 1)

\* os.path.basename(p)
basename(p) == SubSeq(p, LastSlash(p, Len(p)) + 1, Len(p))

\* the two filters of _show_results
Visible(rs, st) ==
    SelectSeq(rs, LAMBDA r : /\ (st.show_pedantic \/ r.severity # "P")
                             /\ (st.show_info \/ r.severity # "I"))

\* the keys of `grouped`, in the order of their insertion
RECURSIVE GroupKeys(_, _)
GroupKeys(rs, seen) ==
    IF rs = <<>> THEN <<>>
    ELSE IF Head(rs).category \in seen THEN GroupKeys(Tail(rs), seen)
    ELSE <<Head(rs).category>> \o GroupKeys(Tail(rs), seen \cup {Head(rs).category})

\* the groups appended to the results box: one per category, with its rows
Groups(rs) ==
    LET keys == GroupKeys(rs, {})
    IN  [k \in 1..Len(keys) |->
            [category |-> keys[k], rows |-> SelectSeq(rs, LAMBDA r : r.category = keys[k])]]

CountSeverity(rs, severity) == Len(SelectSeq(rs, LAMBDA r : r.severity = severity))

\* _start_check(path), called by _on_file_opened or _on_drop; the ellipsis
\* character of the status message is written as three dots
StartCheck(p) ==
    /\ Len(threads) < MaxChecks
    /\ _status' = StatusText("Checking %s...", <<basename(p)>>)
    /\ subtitle' = basename(p)
    /\ _stack' = "spinner"
    /\ threads' = Append(threads, [path |-> p, done |-> FALSE])
    /\ UNCHANGED <<pc, path, run_rpmlint, file, qpi, qpl, qpR, lint, results, calls>>
    /\ UNCHANGED <<settings, idle, _results, shown>>

\* _do_check(path) on the worker thread t
DoCheck(t) ==
    /\ ~threads[t].done
    /\ threads' = [threads EXCEPT ![t].done = TRUE]
    /\ idle' = Append(idle, check_package(threads[t].path, TRUE, file, qpi, qpl, qpR, lint).results)
    /\ UNCHANGED <<pc, path, run_rpmlint, file, qpi, qpl, qpR, lint, results, calls>>
    /\ UNCHANGED <<settings, _results, subtitle, _stack, _status, shown>>

\* the main loop runs the first queued _show_results(results)
ShowResults ==
    /\ idle # <<>>
    /\ idle' = Tail(idle)
    /\ _results' = Head(idle)
    /\ LET rs == Visible(Head(idle), settings)
       IN  IF rs = <<>>
           THEN /\ shown' = <<>>
                /\ _stack' = "success"
                /\ _status' = StatusText("All checks passed!", <<>>)
           ELSE /\ shown' = Groups(rs)
                /\ _stack' = "results"
                /\ _status' = StatusText("%(total)d issues: %(errors)d errors, %(warnings)d warnings",
                                        <<Len(rs), CountSeverity(rs, "E"), CountSeverity(rs, "W")>>)
    /\ UNCHANGED <<pc, path, run_rpmlint, file, qpi, qpl, qpR, lint, results, calls>>
    /\ UNCHANGED <<settings, threads, subtitle>>

InitWindow ==
    /\ pc = "idle" /\ results = <<>> /\ calls = <<>>
    /\ path = "" /\ run_rpmlint = TRUE
    /\ file \in GuiFiles
    /\ qpi \in PackageInfoRuns
    /\ qpl = Completed(0, <<"/usr/local/bin/foo">>, "")
    /\ qpR = Completed(0, <<"/etc/foo">>, "")
    /\ lint \in GuiLintRuns
    /\ settings \in [show_pedantic : BOOLEAN, show_info : BOOLEAN]
    /\ NewWindow

NextWindow ==
    \/ \E p \in GuiPaths : StartCheck(p)
    \/ \E t \in 1..Len(threads) : DoCheck(t)
    \/ ShowResults

SpecWindow == InitWindow /\ [][NextWindow]_vars

-----------------------------------------------------------------------------
(* Properties of _check_rpm_file *)

Succeeded(r) == r.exc = "" /\ r.returncode = 0
ByCategory(rs, c) == SelectSeq(rs, LAMBDA f : f.category = c)
Tags(rs) == [i \in 1..Len(rs) |-> rs[i].tag]
AllQueries == <<"rpm -qpi", "rpm -qpl", "rpm -qpR">>

\* the findings of the checks whose query succeeded, the others contributing nothing
NoDataResults ==
    ForEach(InfoLine, qpi.stdout)
        \o (IF Succeeded(qpl) THEN ForEach(FileLine, qpl.stdout) ELSE <<>>)
        \o (IF Succeeded(qpR) THEN ForEach(DepLine, qpR.stdout) ELSE <<>>)

\* C1 as stated: once the info query has succeeded, any failure of the file-list
\* or dependency query (tool missing, non-zero exit, timeout) adds no Finding and
\* skips only its own check, all three queries being run.
C1_AnyFailureIsNoData ==
    (pc = "_check_rpm_file" /\ Succeeded(qpi))
        => (results = NoDataResults /\ calls = AllQueries)

\* the Finding an exception raised by a query leaves: rpm-not-installed for a
\* missing tool, rpm-error for anything else
IsExceptFinding(f, r) ==
    /\ f.severity = "E"
    /\ f.category = "general"
    /\ f.tag = (IF r.exc = "FileNotFoundError" THEN "rpm-not-installed" ELSE "rpm-error")

\* C1 (amended): once the info query has succeeded, a non-zero exit of the
\* file-list or dependency query adds no Finding and skips only its own check (a
\* file-list query that exits non-zero does not keep the dependency query from
\* running); a query that raises instead (tool missing, timeout) appends one
\* Error Finding, rpm-not-installed or rpm-error, to the findings so far and ends
\* the analysis, no later query being run.
C1_NonZeroExitIsNoData ==
    (pc = "_check_rpm_file" /\ Succeeded(qpi)) =>
        LET info == ForEach(InfoLine, qpi.stdout)
            files == IF Succeeded(qpl) THEN ForEach(FileLine, qpl.stdout) ELSE <<>>
            deps == IF Succeeded(qpR) THEN ForEach(DepLine, qpR.stdout) ELSE <<>>
        IN  IF qpl.exc # ""
            THEN /\ calls = <<"rpm -qpi", "rpm -qpl">>
                 /\ Len(results) = Len(info) + 1
                 /\ SubSeq(results, 1, Len(info)) = info
                 /\ IsExceptFinding(results[Len(results)], qpl)
            ELSE IF qpR.exc # ""
            THEN /\ calls = AllQueries
                 /\ Len(results) = Len(info) + Len(files) + 1
                 /\ SubSeq(results, 1, Len(info) + Len(files)) = info \o files
                 /\ IsExceptFinding(results[Len(results)], qpR)
            ELSE /\ calls = AllQueries
                 /\ results = info \o files \o deps

\* C1 witness: the file-list query exited non-zero, and the dependency query
\* still ran and its check reported
C1_Witness ==
    /\ pc = "_check_rpm_file"
    /\ Succeeded(qpi)
    /\ qpl.exc = "" /\ qpl.returncode # 0
    /\ Succeeded(qpR)
    /\ calls = AllQueries
    /\ \E i \in 1..Len(results) : results[i].tag = "file-dependency"

InfoFailed(r) == r.exc # "" \/ r.returncode # 0

\* C2 as stated: when the info query fails for any reason, the result is exactly
\* one Error Finding tagged rpm-query-failed or rpm-not-installed, and no other
\* query is run.
C2_FailedInfoTwoTags ==
    (pc = "_check_rpm_file" /\ InfoFailed(qpi)) =>
        /\ Len(results) = 1
        /\ results[1].severity = "E"
        /\ results[1].tag \in {"rpm-query-failed", "rpm-not-installed"}
        /\ calls = <<"rpm -qpi">>

\* C2 (amended): when the info query fails for any reason, the result is exactly
\* one Error Finding and no other query is run; its tag is rpm-query-failed for a
\* non-zero exit, rpm-not-installed for a missing tool, and rpm-error for a
\* timeout or any other exception.
C2_FailedInfoIsFatal ==
    (pc = "_check_rpm_file" /\ InfoFailed(qpi)) =>
        /\ Len(results) = 1
        /\ results[1].severity = "E"
        /\ results[1].tag = (IF qpi.exc = "" THEN "rpm-query-failed"
                             ELSE IF qpi.exc = "FileNotFoundError" THEN "rpm-not-installed"
                             ELSE "rpm-error")
        /\ calls = <<"rpm -qpi">>

\* C2 witness: the info query exited non-zero while the two other queries would
\* have succeeded with something to report
C2_Witness ==
    /\ pc = "_check_rpm_file"
    /\ qpi.exc = "" /\ qpi.returncode # 0
    /\ Succeeded(qpl) /\ ForEach(FileLine, qpl.stdout) # <<>>
    /\ Succeeded(qpR) /\ ForEach(DepLine, qpR.stdout) # <<>>
    /\ Tags(results) = <<"rpm-query-failed">>

UnderBuildId(fp) == fp = "/usr/lib/.build-id" \/ In("/.build-id/", fp)

\* the file-placement tags C9 gives one path
C9_Expected(fp) ==
    IF UnderBuildId(fp) THEN <<>>
    ELSE IF startswith(fp, "/usr/local/") THEN <<"file-in-usr-local">>
    ELSE IF startswith(fp, "/tmp/") \/ startswith(fp, "/var/tmp/") THEN <<"file-in-tmp">>
    ELSE <<>>

\* C9 as stated: of the paths a successful file-list query returns, one under a
\* .build-id directory yields no file-placement Finding, any other under
\* /usr/local/ exactly one file-in-usr-local, any other under /tmp/ or /var/tmp/
\* exactly one file-in-tmp, and the rest nothing.
C9_BuildIdExempt ==
    (pc = "_check_rpm_file" /\ Succeeded(qpi) /\ Succeeded(qpl)) =>
        Tags(ByCategory(results, "file-placement")) = ForEach(C9_Expected, qpl.stdout)

-----------------------------------------------------------------------------
(* Properties of check_package *)

LinterFindings == IF run_rpmlint THEN _run_rpmlint(path, lint).results ELSE <<>>
LinterCalls == IF run_rpmlint THEN <<"_run_rpmlint", "rpmlint">> ELSE <<>>

\* C3: a path ending in .spec goes to the spec analyzer and one ending in .rpm
\* to the binary analyzer; the linter is invoked exactly when run_rpmlint is
\* true, and after the analyzer; the result is the analyzer's Findings followed by
\* the linter's, nothing merged, reordered or removed.
C3_RoutingAndConcatenation ==
    pc = "check_package" =>
        /\ endswith(path, ".spec") =>
              /\ calls = <<"_check_spec_file">> \o LinterCalls
              /\ results = _check_spec_file(path, file).results \o LinterFindings
        /\ endswith(path, ".rpm") =>
              /\ calls = <<"_check_rpm_file">> \o _check_rpm_file(path, qpi, qpl, qpR).calls
                             \o LinterCalls
              /\ results = _check_rpm_file(path, qpi, qpl, qpR).results \o LinterFindings

\* C3 witness: a binary package checked without the linter although the linter
\* would have reported, the analyzer's Findings being the whole result
C3_Witness ==
    /\ pc = "check_package"
    /\ endswith(path, ".rpm")
    /\ ~run_rpmlint
    /\ _run_rpmlint(path, lint).results # <<>>
    /\ Len(results) > 1
    /\ calls = <<"_check_rpm_file", "rpm -qpi", "rpm -qpl", "rpm -qpR">>

OtherPath == ~endswith(path, ".spec") /\ ~endswith(path, ".rpm")

\* the first line of the file can be read, and holds `Name:` or a `%`
LooksLikeSpec ==
    /\ file.status \in {"ok", "undecodable_tail"}
    /\ file.lines # <<>>
    /\ In("Name:", file.lines[1]) \/ In("%", file.lines[1])

\* C4: for a path ending in neither .spec nor .rpm the linter is never invoked;
\* the result is the spec analyzer's Findings if the first line holds `Name:` or
\* a `%`, and otherwise, also when reading the first line fails, exactly one
\* Error Finding tagged unknown-file-type.
C4_OtherPaths ==
    (pc = "check_package" /\ OtherPath) =>
        /\ \A i \in 1..Len(calls) : calls[i] \notin {"_run_rpmlint", "rpmlint"}
        /\ IF LooksLikeSpec
           THEN results = _check_spec_file(path, file).results
           ELSE /\ Len(results) = 1
                /\ results[1].severity = "E"
                /\ results[1].tag = "unknown-file-type"

\* C4 witness: a.xyz starts with `Name:`, the linter was asked for and would
\* have reported, and only the spec analyzer ran
C4_Witness ==
    /\ pc = "check_package"
    /\ path = "a.xyz"
    /\ run_rpmlint
    /\ _run_rpmlint(path, lint).results # <<>>
    /\ file = File("ok", <<"Name: foo">>)
    /\ calls = <<"_check_spec_file">>
    /\ results = _check_spec_file(path, file).results

-----------------------------------------------------------------------------
(* Properties of _check_spec_file *)

SpecRead == pc = "_check_spec_file" /\ file.status = "ok"

\* the numbers of the lines of the file that satisfy P, in increasing order
LinesWhere(P(_)) == SelectSeq([i \in 1..Len(file.lines) |-> i], P)

ByTag(rs, t) == SelectSeq(rs, LAMBDA f : f.tag = t)

\* line i, trimmed, is one of the six scriptlet markers
IsMarker(i) ==
    strip(file.lines[i]) \in {"%pre", "%post", "%preun", "%postun", "%pretrans", "%posttrans"}

\* line i, trimmed, starts with `%` but not `%{`, and is no marker
IsSectionLine(i) ==
    /\ startswith(strip(file.lines[i]), "%")
    /\ ~startswith(strip(file.lines[i]), "%{")
    /\ ~IsMarker(i)

\* in_scriptlet holds when the content of line i is looked at: a marker precedes
\* it, no section line lies between that marker and line i, and line i is
\* neither a marker nor a section line
InScriptletAt(i) ==
    /\ ~IsMarker(i)
    /\ ~IsSectionLine(i)
    /\ \E j \in 1..(i - 1) : IsMarker(j) /\ \A k \in (j + 1)..(i - 1) : ~IsSectionLine(k)

HasDangerousRm(i) ==
    In("rm -rf /", file.lines[i]) \/ In("rm -rf $RPM_BUILD_ROOT", file.lines[i])

C5_Offending(i) == InScriptletAt(i) /\ HasDangerousRm(i)

\* C5: in_scriptlet becomes true on a marker line and false on a line starting
\* with `%` but not `%{`; the dangerous-rm-in-scriptlet Findings are, in order,
\* one for each line at which in_scriptlet holds and which contains `rm -rf /`
\* or `rm -rf $RPM_BUILD_ROOT`; no scriptlet Finding names a marker line or a
\* section line.
C5_ScriptletScan ==
    SpecRead =>
        LET found == ByTag(results, "dangerous-rm-in-scriptlet")
            want == LinesWhere(C5_Offending)
        IN  /\ Len(found) = Len(want)
            /\ \A k \in 1..Len(found) :
                   found[k].detail = "Line " \o IntToStr(want[k]) \o ": Dangerous rm -rf in scriptlet."
            /\ \A f \in {results[k] : k \in {n \in 1..Len(results) : results[n].category = "scriptlets"}} :
                   \E i \in 1..Len(file.lines) :
                       InScriptletAt(i) /\ startswith(f.detail, "Line " \o IntToStr(i) \o ":")

\* C5 witness: a dangerous rm inside a scriptlet is reported (two are), one
\* after a section line has ended the scriptlet is not
C5_Witness ==
    /\ SpecRead
    /\ Len(ByTag(results, "dangerous-rm-in-scriptlet")) = 2
    /\ \E m, j, i \in 1..Len(file.lines) :
           /\ m < j /\ j < i
           /\ IsMarker(m) /\ IsSectionLine(j)
           /\ HasDangerousRm(i) /\ ~InScriptletAt(i)

\* line i, trimmed and lower-cased, starts with `key`, as the header scan's
\* branch for `key` requires (the keys tested before it do not match such lines)
IsHeaderLine(i, key) ==
    LET t == strip(file.lines[i])
    IN  Len(t) >= Len(key) /\ lower(SubSeq(t, 1, Len(key))) = key

IsReleaseLine(i) == IsHeaderLine(i, "release:")
LacksDist(i) == ~In("%{?dist}", AfterColon(file.lines[i]))
C6_BadRelease(i) == IsReleaseLine(i) /\ LacksDist(i)

\* C6 as stated: of a text with at least one Release: line only the first is
\* validated: no missing-dist-tag when its value contains %{?dist}, exactly one
\* when it does not, however many Release: lines there are.
C6_FirstReleaseOnly ==
    (SpecRead /\ LinesWhere(IsReleaseLine) # <<>>) =>
        Len(ByTag(results, "missing-dist-tag"))
            = (IF LacksDist(LinesWhere(IsReleaseLine)[1]) THEN 1 ELSE 0)

\* C6 (amended): every Release: line is validated: the analyzer produces one
\* missing-dist-tag Finding for each Release: line whose value lacks %{?dist} and
\* none for a Release: line whose value contains it.
C6_EveryReleaseLine ==
    SpecRead => Len(ByTag(results, "missing-dist-tag")) = Len(LinesWhere(C6_BadRelease))

\* C6 witness: two Release: lines, both lacking %{?dist}, both reported
C6_Witness ==
    /\ SpecRead
    /\ Len(LinesWhere(C6_BadRelease)) = 2
    /\ Len(LinesWhere(IsReleaseLine)) = 3
    /\ Len(ByTag(results, "missing-dist-tag")) = 2

IsLicenseLine(i) == IsHeaderLine(i, "license:")

\* C7: a text with no License: line yields no Finding of category licensing.
C7_NoLicenseLine ==
    (SpecRead /\ LinesWhere(IsLicenseLine) = <<>>) => ByCategory(results, "licensing") = <<>>

\* C7 witness: a text of three lines, none a License: line, analysed, the
\* missing license reported
C7_Witness ==
    /\ SpecRead
    /\ Len(file.lines) = 3
    /\ LinesWhere(IsLicenseLine) = <<>>
    /\ ByTag(results, "missing-license") # <<>>
    /\ ByCategory(results, "licensing") = <<>>

\* the license value the header scan leaves: that of the last License: line
CapturedLicense ==
    LET ls == LinesWhere(IsLicenseLine)
    IN  IF ls = <<>> THEN "" ELSE strip(AfterColon(file.lines[ls[Len(ls)]]))

\* the parts of the captured expression: split, trimmed, parentheses stripped
CapturedParts ==
    LET raw == re_split(CapturedLicense) IN [k \in 1..Len(raw) |-> LicensePart(raw[k])]

\* what C8 gives one part: its severity and tag, or nothing
C8_Expected(part) ==
    IF part \in spdx_identifiers THEN <<>>
    ELSE IF part \in old_fedora_licenses THEN <<<<"W", "old-license-identifier">>>>
    ELSE <<<<"I", "unknown-license-identifier">>>>

\* C8: for a non-empty captured license expression the licensing Findings are
\* as many as the parts outside the SPDX set: one Warning old-license-identifier
\* for a part in the legacy set only, one Info unknown-license-identifier for a
\* part in neither set, none for a part in the SPDX set (MIT included).
C8_LicenseFindings ==
    (SpecRead /\ CapturedLicense # "") =>
        LET found == ByCategory(results, "licensing")
        IN  /\ Len(found)
                 = Cardinality({k \in 1..Len(CapturedParts) : CapturedParts[k] \notin spdx_identifiers})
            /\ [k \in 1..Len(found) |-> <<found[k].severity, found[k].tag>>]
                 = ForEach(C8_Expected, CapturedParts)

\* C8 witness: an expression whose three parts are MIT (in both sets), BSD
\* (legacy only) and Foo (in neither)
C8_Witness ==
    /\ SpecRead
    /\ CapturedParts = <<"MIT", "BSD", "Foo">>
    /\ Tags(ByCategory(results, "licensing"))
           = <<"old-license-identifier", "unknown-license-identifier">>

-----------------------------------------------------------------------------
(* Properties of _run_rpmlint *)

LintRan == pc = "_run_rpmlint" /\ lint.exc = ""

NoWhite(s) == \A i \in 1..Len(s) : Char(s, i) \notin White
lstrip(s) == SubSeq(s, SkipFwd(s, 1, White), Len(s))

\* line reads <package>: <severity-letter>: <tag> <detail>, with f's fields
IsPrimaryParse(line, f) ==
    \E i \in 2..Len(line) :
        /\ Char(line, i) = ":"
        /\ f.package = strip(SubSeq(line, 1, i - 1))
        /\ LET rest == lstrip(SubSeq(line, i + 1, Len(line)))
               rest2 == lstrip(SubSeq(rest, 3, Len(rest)))
           IN  /\ Len(f.severity) = 1 /\ f.severity \in WordChars
               /\ startswith(rest, f.severity \o ":")
               /\ f.tag # "" /\ NoWhite(f.tag)
               /\ rest2 = f.tag \/ \E w \in White : startswith(rest2, f.tag \o w)
               /\ f.detail = lstrip(SubSeq(rest2, Len(f.tag) + 1, Len(rest2)))

\* line reads <tag>: <detail>, with f's fields
IsFallbackParse(line, f) ==
    /\ f.tag # "" /\ NoWhite(f.tag)
    /\ startswith(line, f.tag \o ":")
    /\ f.detail = lstrip(SubSeq(line, Len(f.tag) + 2, Len(line)))

\* some reading of the line by the primary pattern exists
HasPrimaryShape(line) ==
    \E i \in 2..Len(line), j \in 1..Len(line) :
        /\ j > i + 1
        /\ Char(line, i) = ":" /\ Char(line, j) = ":"
        /\ Char(line, j - 1) \in WordChars
        /\ \A k \in (i + 1)..(j - 2) : Char(line, k) \in White
        /\ strip(SubSeq(line, j + 1, Len(line))) # ""

\* some reading of the line by the fallback pattern exists
HasFallbackShape(line) ==
    \E c \in 2..Len(line) : Char(line, c) = ":" /\ NoWhite(SubSeq(line, 1, c))

\* the fallback is tried on the line
FallbackTried(line) ==
    /\ ~HasPrimaryShape(line)
    /\ strip(line) # ""
    /\ ~startswith(line, "---") /\ ~startswith(line, " ") /\ ~startswith(line, "rpmlint:")

C10_Yields(line) == HasPrimaryShape(line) \/ (FallbackTried(line) /\ HasFallbackShape(line))

\* C10: each output line yields at most one Finding: one with the captured
\* fields if the primary pattern matches; else, if the line is non-blank and
\* does not start with `---`, a space or `rpmlint:`, and the fallback pattern
\* matches, one with severity W and empty package; else none.  The Findings come
\* in line order and all have category rpmlint.
C10_LinterLines ==
    LintRan =>
        LET src == SelectSeq(lint.stdout, C10_Yields)
        IN  /\ Len(results) = Len(src)
            /\ \A k \in 1..Len(results) :
                   /\ results[k].category = "rpmlint"
                   /\ results[k].recommendation = ""
                   /\ IF HasPrimaryShape(src[k])
                      THEN IsPrimaryParse(src[k], results[k])
                      ELSE /\ results[k].severity = "W"
                           /\ results[k].package = ""
                           /\ IsFallbackParse(src[k], results[k])

\* C10 witness: a line of the fallback form behind a noise prefix is dropped,
\* the next one is read by the fallback pattern
C10_Witness ==
    /\ LintRan
    /\ lint.stdout = <<"--- foo: bar", "foo: bar baz">>
    /\ Len(results) = 1
    /\ results[1].tag = "foo" /\ results[1].detail = "bar baz" /\ results[1].severity = "W"

LintReturned == pc = "_run_rpmlint"
FailureTags == {"rpmlint-not-installed", "rpmlint-error"}

\* C11: a failed linter invocation gives exactly one Finding, of severity E:
\* rpmlint-not-installed with a non-empty recommendation when the tool is not
\* found, rpmlint-error with the text of the error as detail for any other
\* failure (for the timeout, the text names the 120 seconds); a linter that ran,
\* whatever its exit status, gives neither.
C11_LinterFailure ==
    LintReturned =>
        /\ lint.exc = "FileNotFoundError" =>
               /\ Len(results) = 1
               /\ results[1].severity = "E"
               /\ results[1].tag = "rpmlint-not-installed"
               /\ results[1].recommendation # ""
        /\ lint.exc \notin {"", "FileNotFoundError"} =>
               /\ Len(results) = 1
               /\ results[1].severity = "E"
               /\ results[1].tag = "rpmlint-error"
               /\ lint.exc = "TimeoutExpired" =>
                      results[1].detail
                          = "Command '['rpmlint', '" \o path \o "']' timed out after 120 seconds"
               /\ lint.exc = "PermissionError" =>
                      results[1].detail = "[Errno 13] Permission denied: 'rpmlint'"
        /\ lint.exc = "" =>
               \A k \in 1..Len(results) : results[k].tag \notin FailureTags

\* C11 witness: the linter ran over its time
C11_Witness ==
    /\ LintReturned
    /\ lint.exc = "TimeoutExpired"
    /\ Tags(results) = <<"rpmlint-error">>

-----------------------------------------------------------------------------
(* Properties of _check_spec_file: the scenario and the required fields *)

Scenario ==
    <<"Name: Foo", "Version: 1", "Release: 1", "Summary: test.", "License: GPLv2",
      "%description", "test">>

Has(rs, severity, tag) == \E k \in 1..Len(rs) : rs[k].severity = severity /\ rs[k].tag = tag

\* C12: the analysis of the scenario text includes the Warnings
\* uppercase-package-name (package Foo), missing-dist-tag, summary-ends-with-dot,
\* missing-url, missing-source, missing-changelog and old-license-identifier,
\* and no Finding of severity E.
C12_Scenario ==
    (SpecRead /\ file.lines = Scenario) =>
        /\ \E k \in 1..Len(results) :
               /\ results[k].severity = "W"
               /\ results[k].tag = "uppercase-package-name"
               /\ results[k].package = "Foo"
        /\ \A t \in {"missing-dist-tag", "summary-ends-with-dot", "missing-url", "missing-source",
                      "missing-changelog", "old-license-identifier"} : Has(results, "W", t)
        /\ \A k \in 1..Len(results) : results[k].severity # "E"

\* C12 witness: the scenario text analysed, seven Findings returned
C12_Witness == SpecRead /\ file.lines = Scenario /\ Len(results) = 7

RequiredFields == {"name", "version", "release", "summary", "license"}

\* some line, trimmed and lower-cased, starts with `<f>:`
FieldPresent(f) == \E i \in 1..Len(file.lines) : IsHeaderLine(i, f \o ":")

\* some line, trimmed, is exactly the marker
MarkerPresent(marker) == \E i \in 1..Len(file.lines) : strip(file.lines[i]) = marker

\* some line, trimmed and lower-cased, starts with `source` and holds a colon
SourcePresent ==
    \E i \in 1..Len(file.lines) : IsHeaderLine(i, "source") /\ In(":", file.lines[i])

\* the Findings tagged t are: one of the given severity if absent, none otherwise
ExactlyWhenAbsent(t, severity, present) ==
    /\ Len(ByTag(results, t)) = (IF present THEN 0 ELSE 1)
    /\ \A k \in 1..Len(results) : results[k].tag = t => results[k].severity = severity

\* C13: for each field f of name, version, release, summary, license there is
\* exactly one Error missing-<f> if no line (trimmed, lower-cased) starts with
\* `<f>:` and none if one does; Error missing-description exactly when no
\* (trimmed) line is `%description`; Warnings missing-url, missing-source and
\* missing-changelog exactly when no url: line, no source line with a colon, no
\* `%changelog` line is there.
C13_RequiredFields ==
    SpecRead =>
        /\ \A f \in RequiredFields : ExactlyWhenAbsent("missing-" \o f, "E", FieldPresent(f))
        /\ ExactlyWhenAbsent("missing-description", "E", MarkerPresent("%description"))
        /\ ExactlyWhenAbsent("missing-url", "W", FieldPresent("url"))
        /\ ExactlyWhenAbsent("missing-source", "W", SourcePresent)
        /\ ExactlyWhenAbsent("missing-changelog", "W", MarkerPresent("%changelog"))

\* C13 witness: a version line in capitals and an indented %description count as
\* present; `license :` is no license line and `source` without a colon no
\* source line
C13_Witness ==
    /\ SpecRead
    /\ file.lines = <<"VERSION:1", "  %description ", "license : MIT">>
    /\ Tags(results) = <<"missing-name", "missing-release", "missing-summary", "missing-license",
                         "missing-url", "missing-source", "missing-changelog">>

-----------------------------------------------------------------------------
(* Properties of check_package: the shape of the Findings *)

FindingFields == {"category", "severity", "tag", "detail", "package", "recommendation"}

\* C14 as stated: every Finding check_package returns has the six fields, a
\* severity among E, W, I, N, P and a category among the ten categories.
C14_FindingShape ==
    pc = "check_package" =>
        \A k \in 1..Len(results) :
            /\ DOMAIN results[k] = FindingFields
            /\ results[k].severity \in SEVERITY_NAMES
            /\ results[k].category \in CATEGORIES

-----------------------------------------------------------------------------
(* Properties of _check_spec_file: the changelog scan *)

IsChangelogLine(i) == strip(file.lines[i]) = "%changelog"

\* in_changelog holds when line i is looked at: a %changelog line precedes it
InChangelogAt(i) == \E j \in 1..(i - 1) : IsChangelogLine(j)

\* line i starts with `*` and is no entry of the standard format
C15_Malformed(i) ==
    /\ InChangelogAt(i)
    /\ startswith(file.lines[i], "*")
    /\ ~EntryMatch(file.lines[i])

\* C15: in_changelog holds from the line after the first %changelog line to the
\* end of the text, whatever sections follow; the malformed-changelog-entry
\* Findings are, in order, one Warning with the line number for each line after
\* that point that starts with `*` and does not match the entry pattern; none
\* names a line at or before the first %changelog line.
C15_ChangelogScan ==
    SpecRead =>
        LET found == ByTag(results, "malformed-changelog-entry")
            want == LinesWhere(C15_Malformed)
        IN  /\ Len(found) = Len(want)
            /\ \A k \in 1..Len(found) :
                   /\ found[k].severity = "W"
                   /\ found[k].detail
                          = "Line " \o IntToStr(want[k])
                                \o ": Changelog entry does not follow standard format."
                   /\ \E j \in 1..(want[k] - 1) : IsChangelogLine(j)

\* C15 witness: a malformed entry below a later section is reported, with its
\* line number
C15_Witness ==
    /\ SpecRead
    /\ file.lines = <<"%changelog", "%files", "* Mon Jan 01 2024 John <john>">>
    /\ Len(results) > 0
    /\ results[Len(results)].tag = "malformed-changelog-entry"
    /\ startswith(results[Len(results)].detail, "Line 3:")

-----------------------------------------------------------------------------
(* Properties of _check_spec_file: the parts of the license expression *)

\* index of the last "'" of s at or before i (0 if none)
RECURSIVE LastQuote(_, _)
LastQuote(s, i) == IF i < 1 THEN 0 ELSE IF Char(s, i) = "'" THEN i ELSE LastQuote(s, i - 1)

\* the part a licensing Finding quotes in its detail
QuotedPart(f) == SubSeq(f.detail, find(f.detail, "'", 1) + 1, LastQuote(f.detail, Len(f.detail)) - 1)

\* the parts the licensing Findings name, in order
ReportedParts ==
    LET found == ByCategory(results, "licensing")
    IN  [k \in 1..Len(found) |-> QuotedPart(found[k])]

\* the index after a boundary that starts at index p of s: whitespace, one of
\* the keywords kws, whitespace; 0 when none starts there
BoundaryEnd(s, p, kws) ==
    LET q == SkipFwd(s, p, White)
        hit == {kw \in kws : /\ q + Len(kw) <= Len(s)
                             /\ SubSeq(s, q, q + Len(kw) - 1) = kw
                             /\ Char(s, q + Len(kw)) \in White}
    IN  IF p <= Len(s) /\ Char(s, p) \in White /\ hit # {}
        THEN SkipFwd(s, q + Len(CHOOSE kw \in hit : TRUE), White)
        ELSE 0

\* s cut at its boundaries, from left to right
RECURSIVE SplitOn(_, _)
SplitOn(s, kws) ==
    LET starts == {p \in 1..Len(s) : BoundaryEnd(s, p, kws) # 0}
    IN  IF starts = {} THEN <<s>>
        ELSE LET p == CHOOSE x \in starts : \A y \in starts : x <= y
             IN  <<SubSeq(s, 1, p - 1)>> \o SplitOn(SubSeq(s, BoundaryEnd(s, p, kws), Len(s)), kws)

\* AND and OR in every spelling
AnyCaseKeywords ==
    {"AND", "ANd", "AnD", "And", "aND", "aNd", "anD", "and", "OR", "Or", "oR", "or"}

\* AND and OR all in capitals or all in small letters
SameCaseKeywords == {"AND", "and", "OR", "or"}

\* one layer of parentheses removed from the trimmed part: an opening one at
\* its start, a closing one at its end
OneLayerOff(part) ==
    LET t == strip(part)
        a == IF t # "" /\ Char(t, 1) = "(" THEN 2 ELSE 1
        b == IF t # "" /\ Char(t, Len(t)) = ")" THEN Len(t) - 1 ELSE Len(t)
    IN  SubSeq(t, a, b)

\* every parenthesis at either end removed from the trimmed part
RECURSIVE AllLayersOff(_)
AllLayersOff(part) ==
    LET t == strip(part)
    IN  IF t # "" /\ Char(t, 1) \in {"(", ")"} THEN AllLayersOff(SubSeq(t, 2, Len(t)))
        ELSE IF t # "" /\ Char(t, Len(t)) \in {"(", ")"} THEN AllLayersOff(SubSeq(t, 1, Len(t) - 1))
        ELSE t

NotSpdx(part) == part \notin spdx_identifiers

\* C16 as stated: the parts are those between AND/OR in any spelling, each
\* trimmed and with one layer of enclosing parentheses removed.
C16_AnyCaseOneLayer ==
    (SpecRead /\ CapturedLicense # "") =>
        LET parts == SplitOn(CapturedLicense, AnyCaseKeywords)
        IN  ReportedParts = SelectSeq([k \in 1..Len(parts) |-> OneLayerOff(parts[k])], NotSpdx)

\* C16 (amended): the parts are those between AND/OR written all in capitals or
\* all in small letters, And/Or and other mixed spellings being no boundary;
\* each part is trimmed and loses every parenthesis at its two ends.
C16_SameCaseAllLayers ==
    (SpecRead /\ CapturedLicense # "") =>
        LET parts == SplitOn(CapturedLicense, SameCaseKeywords)
        IN  ReportedParts = SelectSeq([k \in 1..Len(parts) |-> AllLayersOff(parts[k])], NotSpdx)

\* C16 witness: two layers of parentheses are both removed, and `And` does not
\* divide the second part
C16_Witness ==
    /\ SpecRead
    /\ CapturedLicense = "((GPLv3)) or (MIT And BSD)"
    /\ ReportedParts = <<"GPLv3", "MIT And BSD">>

-----------------------------------------------------------------------------
(* Properties of _check_spec_file: the macro scan *)

\* line i, trimmed, holds the path and not the macro
Hardcoded(i, dir, macro) == In(dir, strip(file.lines[i])) /\ ~In(macro, strip(file.lines[i]))

IsComment(i) == startswith(strip(file.lines[i]), "#")
IsSourceLine(i) == startswith(strip(file.lines[i]), "Source")

\* the tags line i gives, each with i
C17_Expected(i) ==
    IF IsComment(i) THEN <<>>
    ELSE (IF Hardcoded(i, "/usr/lib/", "%{_libdir}")
          THEN <<<<"hardcoded-library-path", i>>>> ELSE <<>>)
      \o (IF Hardcoded(i, "/usr/bin/", "%{_bindir}") /\ ~IsSourceLine(i)
          THEN <<<<"hardcoded-bindir", i>>>> ELSE <<>>)
      \o (IF Hardcoded(i, "/usr/share/", "%{_datadir}") /\ ~IsSourceLine(i)
          THEN <<<<"hardcoded-datadir", i>>>> ELSE <<>>)
      \o (IF Hardcoded(i, "/etc/", "%{_sysconfdir}")
          THEN <<<<"hardcoded-sysconfdir", i>>>> ELSE <<>>)

\* C17: each line that is no comment gives, independently, hardcoded-library-path
\* for /usr/lib/ without %{_libdir}, hardcoded-bindir for /usr/bin/ without
\* %{_bindir}, hardcoded-datadir for /usr/share/ without %{_datadir} and
\* hardcoded-sysconfdir for /etc/ without %{_sysconfdir}; a Source line is exempt
\* from the bindir and datadir checks only; a comment line gives nothing; each
\* detail starts with the number of its line.
C17_MacroScan ==
    SpecRead =>
        LET found == ByCategory(results, "macros")
            want == Flatten([i \in 1..Len(file.lines) |-> C17_Expected(i)])
        IN  /\ Len(found) = Len(want)
            /\ \A k \in 1..Len(found) :
                   /\ found[k].tag = want[k][1]
                   /\ startswith(found[k].detail, "Line " \o IntToStr(want[k][2]) \o ": ")

\* C17 witness: one line gives all four Findings, a Source line with the same
\* paths the sysconfdir one alone, a comment none
C17_Witness ==
    /\ SpecRead
    /\ file.lines = <<"# /usr/lib/a /etc/d", "/usr/lib/a /usr/bin/b /usr/share/c /etc/d",
                      "Source0: /usr/bin/b /usr/share/c /etc/d">>
    /\ Tags(ByCategory(results, "macros"))
           = <<"hardcoded-library-path", "hardcoded-bindir", "hardcoded-datadir",
               "hardcoded-sysconfdir", "hardcoded-sysconfdir">>

-----------------------------------------------------------------------------
(* Properties of _check_rpm_file: the dependency list *)

\* all three queries returned and the dependency query exited with 0
DependenciesRead ==
    /\ pc = "_check_rpm_file"
    /\ Succeeded(qpi) /\ qpl.exc = "" /\ Succeeded(qpR)

ExemptDependencies == {"/bin/sh", "/bin/bash", "/sbin/ldconfig"}

\* the entry, trimmed, is an absolute path outside /usr/ and not exempt
C18_FileDependency(entry) ==
    LET dep == strip(entry)
    IN  /\ Len(dep) >= 1 /\ Char(dep, 1) = "/"
        /\ ~(Len(dep) >= 5 /\ SubSeq(dep, 1, 5) = "/usr/")
        /\ dep \notin ExemptDependencies

\* C18: after a successful dependency query the file-dependency Findings are,
\* in order, one Info Finding for each entry that, trimmed, is an absolute path
\* outside /usr/ and none of /bin/sh, /bin/bash, /sbin/ldconfig; no other entry
\* gives a Finding of category dependencies.
C18_DependencyList ==
    DependenciesRead =>
        LET found == ByCategory(results, "dependencies")
            want == SelectSeq(qpR.stdout, C18_FileDependency)
        IN  /\ Len(found) = Len(want)
            /\ \A k \in 1..Len(found) :
                   /\ found[k].severity = "I"
                   /\ found[k].tag = "file-dependency"
                   /\ found[k].detail = "File-based dependency: " \o strip(want[k])

\* C18 witness: of an exempt path and a padded path outside /usr/ the second
\* alone is reported
C18_Witness ==
    /\ DependenciesRead
    /\ qpR.stdout = <<"/bin/sh", " /opt/x ">>
    /\ Len(ByTag(results, "file-dependency")) = 1
    /\ results[Len(results)].detail = "File-based dependency: /opt/x"

-----------------------------------------------------------------------------
(* Properties of _check_spec_file: the order of the Findings *)

HeaderTags ==
    {"uppercase-package-name", "space-in-package-name", "missing-dist-tag",
     "summary-ends-with-dot", "summary-too-long"}

RequiredTags ==
    {"missing-" \o f : f \in RequiredFields \cup {"url", "source", "description", "changelog"}}
    \cup {"deprecated-buildroot", "deprecated-clean-section"}

\* the pass a Finding of the spec analyzer comes from, 1 to 6
PassOf(f) ==
    IF f.tag \in HeaderTags THEN 1
    ELSE IF f.tag \in RequiredTags THEN 2
    ELSE IF f.category = "licensing" THEN 3
    ELSE IF f.category = "macros" THEN 4
    ELSE IF f.category = "scriptlets" THEN 5
    ELSE IF f.tag = "malformed-changelog-entry" THEN 6
    ELSE 0

Passes(rs) == [k \in 1..Len(rs) |-> PassOf(rs[k])]

\* the line a Finding of a line-numbered pass names (0 if none)
LineOf(f) ==
    LET named == {i \in 1..Len(file.lines) : startswith(f.detail, "Line " \o IntToStr(i) \o ":")}
    IN  IF named = {} THEN 0 ELSE CHOOSE i \in named : TRUE

HeaderValue(i) == strip(AfterColon(strip(file.lines[i])))

\* the tags the header scan gives line i
C19_HeaderTags(i) ==
    LET v == HeaderValue(i)
    IN  IF IsHeaderLine(i, "name:")
        THEN (IF \E k \in 1..Len(v) : Char(v, k) \in UpperSet
              THEN <<"uppercase-package-name">> ELSE <<>>)
             \o (IF In(" ", v) THEN <<"space-in-package-name">> ELSE <<>>)
        ELSE IF IsHeaderLine(i, "release:")
        THEN (IF In("%{?dist}", v) THEN <<>> ELSE <<"missing-dist-tag">>)
        ELSE IF IsHeaderLine(i, "summary:")
        THEN (IF v # "" /\ Char(v, Len(v)) = "." THEN <<"summary-ends-with-dot">> ELSE <<>>)
             \o (IF Len(v) > 80 THEN <<"summary-too-long">> ELSE <<>>)
        ELSE <<>>

C19_Ordered ==
    SpecRead =>
        /\ \A k \in 1..Len(results) : PassOf(results[k]) \in 1..6
        /\ \A j, k \in 1..Len(results) :
               j < k =>
                   /\ PassOf(results[j]) <= PassOf(results[k])
                   /\ (PassOf(results[j]) = PassOf(results[k]) /\ PassOf(results[j]) >= 4) =>
                          /\ LineOf(results[j]) >= 1
                          /\ LineOf(results[j]) <= LineOf(results[k])
        /\ Tags(SelectSeq(results, LAMBDA f : PassOf(f) = 1))
               = Flatten([i \in 1..Len(file.lines) |-> C19_HeaderTags(i)])

-----------------------------------------------------------------------------
(* Properties of the window *)

\* every worker has delivered and the main loop has run every queued call
AllDelivered ==
    /\ threads # <<>>
    /\ \A t \in 1..Len(threads) : threads[t].done
    /\ idle = <<>>

\* the path of the check started last
LatestPath == threads[Len(threads)].path

\* C20 as stated: once all workers have delivered, the results the window holds
\* and displays are those of the check started last, the one whose file name
\* the subtitle shows.
C20_LatestCheckShown ==
    AllDelivered =>
        LET latest == check_package(LatestPath, TRUE, file, qpi, qpl, qpR, lint).results
        IN  /\ subtitle = basename(LatestPath)
            /\ _results = latest
            /\ shown = Groups(Visible(latest, settings))

====
